---------------------------- MODULE Spec2Model ----------------------------
(***************************************************************************)
(* Model of the prediction-history / accuracy-tracking core of            *)
(* src/tracker.py: the record store (load_history, save_history), the     *)
(* winner / probability extractor, the recorder (save_predictions), the   *)
(* reconciler (check_and_update_results) and the accuracy aggregator      *)
(* (calculate_accuracy_summary).                                          *)
(*                                                                         *)
(* Representation.                                                         *)
(*   - A Python string is a sequence of one-character strings.  Team      *)
(*     names and prediction texts are held in the records as TLA+         *)
(*     strings; Chars gives the characters of each, and the string        *)
(*     functions work on the characters.                                  *)
(*   - None is the empty tuple and a present optional value v is <<v>>.   *)
(*   - A float with one decimal (a probability, a percentage) is held in  *)
(*     tenths: 55.0 is 550.                                                *)
(*   - A round id is <<"int", n>> or <<"str", n>>: the integer n or the   *)
(*     string holding the decimal numeral of n.                           *)
(*   - The dict {} is the empty function <<>>.                            *)
(*   - The fields date, venue, saved_at, result_checked_at and            *)
(*     last_updated are copied or stamped by the code and never read by   *)
(*     it; they are left out of the records.                              *)
(***************************************************************************)
EXTENDS Integers, Sequences, FiniteSets, TLC

VARIABLES
  disk,   \* predictions_history.json: does it exist, does it parse, its document
  call    \* the entry point that has just run: its arguments, the file as it
          \* was before, the feed and the value returned; Idle between calls

vars == <<disk, call>>

---------------------------------------------------------------------------
(* Optional values *)

None == <<>>

Some(v) == <<v>>

Min(a, b) == IF a <= b THEN a ELSE b

Max(a, b) == IF a >= b THEN a ELSE b

Abs(n) == IF n >= 0 THEN n ELSE -n

---------------------------------------------------------------------------
(* Strings *)

Chars(w) ==
  CASE w = "Richmond" ->
         <<"R", "i", "c", "h", "m", "o", "n", "d">>
    [] w = "Carlton" ->
         <<"C", "a", "r", "l", "t", "o", "n">>
    [] w = "Melbourne" ->
         <<"M", "e", "l", "b", "o", "u", "r", "n", "e">>
    [] w = "North Melbourne" ->
         <<"N", "o", "r", "t", "h", " ", "M", "e", "l", "b", "o", "u", "r", "n", "e">>
    [] w = "Adelaide" ->
         <<"A", "d", "e", "l", "a", "i", "d", "e">>
    [] w = "Port Adelaide" ->
         <<"P", "o", "r", "t", " ", "A", "d", "e", "l", "a", "i", "d", "e">>
    [] w = "PREDICTED WINNER" ->
         <<"P", "R", "E", "D", "I", "C", "T", "E", "D", " ", "W", "I", "N", "N", "E", "R">>
    [] w = "PREDICTED WINNER: Richmond 55%" ->
         <<"P", "R", "E", "D", "I", "C", "T", "E", "D", " ", "W", "I", "N", "N", "E", "R", ":", " ", "R", "i", "c", "h", "m", "o", "n", "d", " ", "5", "5", "%">>
    [] w = "PREDICTED WINNER: Carlton 52%" ->
         <<"P", "R", "E", "D", "I", "C", "T", "E", "D", " ", "W", "I", "N", "N", "E", "R", ":", " ", "C", "a", "r", "l", "t", "o", "n", " ", "5", "2", "%">>
    [] w = "Too close to call" ->
         <<"T", "o", "o", " ", "c", "l", "o", "s", "e", " ", "t", "o", " ", "c", "a", "l", "l">>
    [] w = "PREDICTED WINNER:" ->
         <<"P", "R", "E", "D", "I", "C", "T", "E", "D", " ", "W", "I", "N", "N", "E", "R", ":">>
    [] w = "PREDICTED WINNER: " ->
         <<"P", "R", "E", "D", "I", "C", "T", "E", "D", " ", "W", "I", "N", "N", "E", "R", ":", " ">>
    [] w = " is backed at 61% to beat " ->
         <<" ", "i", "s", " ", "b", "a", "c", "k", "e", "d", " ", "a", "t", " ", "6", "1", "%", " ", "t", "o", " ", "b", "e", "a", "t", " ">>
    [] w = "" ->
         <<>>
    [] w = "The predicted winner last week was " ->
         <<"T", "h", "e", " ", "p", "r", "e", "d", "i", "c", "t", "e", "d", " ", "w", "i", "n", "n", "e", "r", " ", "l", "a", "s", "t", " ", "w", "e", "e", "k", " ", "w", "a", "s", " ">>
    [] w = ". " ->
         <<".", " ">>
    [] w = "PREDICTED WINNER: North Melbourne" ->
         <<"P", "R", "E", "D", "I", "C", "T", "E", "D", " ", "W", "I", "N", "N", "E", "R", ":", " ", "N", "o", "r", "t", "h", " ", "M", "e", "l", "b", "o", "u", "r", "n", "e">>

\* str.upper() on one character
UpperChar(c) ==
  CASE c = "a" -> "A" [] c = "b" -> "B" [] c = "c" -> "C" [] c = "d" -> "D"
    [] c = "e" -> "E" [] c = "f" -> "F" [] c = "g" -> "G" [] c = "h" -> "H"
    [] c = "i" -> "I" [] c = "j" -> "J" [] c = "k" -> "K" [] c = "l" -> "L"
    [] c = "m" -> "M" [] c = "n" -> "N" [] c = "o" -> "O" [] c = "p" -> "P"
    [] c = "q" -> "Q" [] c = "r" -> "R" [] c = "s" -> "S" [] c = "t" -> "T"
    [] c = "u" -> "U" [] c = "v" -> "V" [] c = "w" -> "W" [] c = "x" -> "X"
    [] c = "y" -> "Y" [] c = "z" -> "Z" [] OTHER -> c

\* s.upper()
Upper(s) == [i \in 1..Len(s) |-> UpperChar(s[i])]

\* s[a:b] for 0 <= a <= b
Slice(s, a, b) == SubSeq(s, a + 1, Min(b, Len(s)))

\* does sub occur in s at the 0-based index i
OccursAt(s, sub, i) ==
  /\ i >= 0
  /\ i + Len(sub) <= Len(s)
  /\ \A k \in 1..Len(sub) : s[i + k] = sub[k]

\* s.find(sub): the lowest index where sub occurs, -1 when it does not
Find(s, sub) ==
  LET hits == {i \in 0..Len(s) : OccursAt(s, sub, i)}
  IN  IF hits = {} THEN -1 ELSE CHOOSE i \in hits : \A j \in hits : i <= j

\* sub in s
Contains(s, sub) == Find(s, sub) # -1

\* s.count(sub): the occurrences of sub found left to right without overlap
RECURSIVE CountFrom(_, _, _)
CountFrom(s, sub, i) ==
  IF i + Len(sub) > Len(s) THEN 0
  ELSE IF OccursAt(s, sub, i) THEN 1 + CountFrom(s, sub, i + Max(Len(sub), 1))
  ELSE CountFrom(s, sub, i + 1)

Count(s, sub) == CountFrom(s, sub, 0)

---------------------------------------------------------------------------
(* extract_predicted_winner *)

MARKER == Chars("PREDICTED WINNER")

WinnerWindow == 200

FallbackWindow == 300

\* extract_predicted_winner with the teams matched by the last word of their names
extract_predicted_winner_last_word(prediction_text, home_team, away_team) ==
  LET LastWord(name) ==
        LET spaces == {i \in 1..Len(name) : name[i] = " "}
        IN  IF spaces = {} THEN name
            ELSE SubSeq(name, (CHOOSE i \in spaces : \A j \in spaces : j <= i) + 1, Len(name))
      text       == Upper(prediction_text)
      home_upper == LastWord(Upper(Chars(home_team)))
      away_upper == LastWord(Upper(Chars(away_team)))
      idx        == Find(text, MARKER)
      snippet    == Slice(text, idx, idx + WinnerWindow)
      home_pos   == Find(snippet, home_upper)
      away_pos   == Find(snippet, away_upper)
      fsnippet   == Upper(Slice(prediction_text, 0, FallbackWindow))
      home_count == Count(fsnippet, home_upper)
      away_count == Count(fsnippet, away_upper)
  IN  IF Contains(text, MARKER) /\ home_pos # -1 /\ (away_pos = -1 \/ home_pos < away_pos)
        THEN home_team
      ELSE IF Contains(text, MARKER) /\ away_pos # -1
        THEN away_team
      ELSE IF home_count > away_count THEN home_team
      ELSE IF away_count > home_count THEN away_team
      ELSE "Unknown"

\* extract_predicted_winner with "Draw" returned when neither team is found
extract_predicted_winner_draw(prediction_text, home_team, away_team) ==
  LET text       == Upper(prediction_text)
      home_upper == Upper(Chars(home_team))
      away_upper == Upper(Chars(away_team))
      idx        == Find(text, MARKER)
      snippet    == Slice(text, idx, idx + WinnerWindow)
      home_pos   == Find(snippet, home_upper)
      away_pos   == Find(snippet, away_upper)
      fsnippet   == Upper(Slice(prediction_text, 0, FallbackWindow))
      home_count == Count(fsnippet, home_upper)
      away_count == Count(fsnippet, away_upper)
  IN  IF Contains(text, MARKER) /\ home_pos # -1 /\ (away_pos = -1 \/ home_pos < away_pos)
        THEN home_team
      ELSE IF Contains(text, MARKER) /\ away_pos # -1
        THEN away_team
      ELSE IF home_count > away_count THEN home_team
      ELSE IF away_count > home_count THEN away_team
      ELSE "Draw"

extract_predicted_winner(prediction_text, home_team, away_team) ==
  LET text       == Upper(prediction_text)
      home_upper == Upper(Chars(home_team))
      away_upper == Upper(Chars(away_team))
      idx        == Find(text, MARKER)
      snippet    == Slice(text, idx, idx + WinnerWindow)
      home_pos   == Find(snippet, home_upper)
      away_pos   == Find(snippet, away_upper)
      fsnippet   == Upper(Slice(prediction_text, 0, FallbackWindow))
      home_count == Count(fsnippet, home_upper)
      away_count == Count(fsnippet, away_upper)
  IN  IF Contains(text, MARKER) /\ home_pos # -1 /\ (away_pos = -1 \/ home_pos < away_pos)
        THEN home_team
      ELSE IF Contains(text, MARKER) /\ away_pos # -1
        THEN away_team
      ELSE IF home_count > away_count THEN home_team
      ELSE IF away_count > home_count THEN away_team
      ELSE "Unknown"

---------------------------------------------------------------------------
(* extract_winner of the dashboard, src/app.py *)

DASHBOARD_MARKER == Chars("PREDICTED WINNER:")

DashboardWindow == 120

\* the team, or None when the text has no marker or names no team after it
extract_winner(text, home, away) ==
  LET t          == Upper(text)
      home_upper == Upper(Chars(home))
      away_upper == Upper(Chars(away))
      idx        == Find(t, DASHBOARD_MARKER)
      snippet    == Slice(t, idx, idx + DashboardWindow)
      hp         == Find(snippet, home_upper)
      ap         == Find(snippet, away_upper)
  IN  IF ~Contains(t, DASHBOARD_MARKER) THEN None
      ELSE IF hp # -1 /\ (ap = -1 \/ hp < ap) THEN Some(home)
      ELSE IF ap # -1 THEN Some(away)
      ELSE None

---------------------------------------------------------------------------
(* extract_predicted_probability: re.findall(r'(\d{2,3}(?:\.\d)?)\s*%', text) *)

IsDigit(c) == c \in {"0", "1", "2", "3", "4", "5", "6", "7", "8", "9"}

DigitVal(c) ==
  CASE c = "0" -> 0 [] c = "1" -> 1 [] c = "2" -> 2 [] c = "3" -> 3 [] c = "4" -> 4
    [] c = "5" -> 5 [] c = "6" -> 6 [] c = "7" -> 7 [] c = "8" -> 8 [] c = "9" -> 9

IsSpace(c) == c \in {" ", "\n", "\t"}

\* the character of s at the 0-based index i, "" past the end
At(s, i) == IF i >= 0 /\ i < Len(s) THEN s[i + 1] ELSE ""

\* how many of the characters at i, i+1, i+2 form a run of digits starting at i
DigitsAt(s, i) ==
  IF ~IsDigit(At(s, i)) THEN 0
  ELSE IF ~IsDigit(At(s, i + 1)) THEN 1
  ELSE IF ~IsDigit(At(s, i + 2)) THEN 2
  ELSE 3

\* \s* : the index after the whitespace that starts at i
RECURSIVE SkipSpace(_, _)
SkipSpace(s, i) == IF IsSpace(At(s, i)) THEN SkipSpace(s, i + 1) ELSE i

\* \s*% matches at i
PercentAfter(s, i) == At(s, SkipSpace(s, i)) = "%"

\* the integer written by the k digits at i
RECURSIVE Numeral(_, _, _)
Numeral(s, i, k) ==
  IF k = 0 THEN 0 ELSE Numeral(s, i, k - 1) * 10 + DigitVal(At(s, i + k - 1))

\* the match of the pattern that starts at i with exactly k leading digits:
\* the value of group 1 in tenths and the index after the match, or None
MatchWith(s, i, k) ==
  LET q == i + k
  IN  IF At(s, q) = "." /\ IsDigit(At(s, q + 1)) /\ PercentAfter(s, q + 2)
        THEN Some([val |-> Numeral(s, i, k) * 10 + DigitVal(At(s, q + 1)),
                   end |-> SkipSpace(s, q + 2) + 1])
      ELSE IF PercentAfter(s, q)
        THEN Some([val |-> Numeral(s, i, k) * 10, end |-> SkipSpace(s, q) + 1])
      ELSE None

\* the match that starts at i: \d{2,3} is greedy, three digits are tried first
MatchAt(s, i) ==
  LET d == DigitsAt(s, i)
  IN  IF d >= 3 /\ MatchWith(s, i, 3) # None THEN MatchWith(s, i, 3)
      ELSE IF d >= 2 THEN MatchWith(s, i, 2)
      ELSE None

\* re.findall: the matches left to right without overlap, each as float(group 1) in tenths
RECURSIVE FindAllFrom(_, _)
FindAllFrom(s, i) ==
  IF i >= Len(s) THEN <<>>
  ELSE LET m == MatchAt(s, i)
       IN  IF m # None THEN <<m[1].val>> \o FindAllFrom(s, m[1].end)
           ELSE FindAllFrom(s, i + 1)

MinWinProb == 50

MaxWinProb == 99

extract_predicted_probability(prediction_text, predicted_winner) ==
  LET matches == FindAllFrom(prediction_text, 0)
      plausible == {k \in 1..Len(matches) :
                      MinWinProb * 10 <= matches[k] /\ matches[k] <= MaxWinProb * 10}
  IN  IF plausible = {} THEN None
      ELSE Some(matches[CHOOSE k \in plausible : \A j \in plausible : k <= j])

---------------------------------------------------------------------------
(* Round ids *)

IntRound(n) == <<"int", n>>

StrRound(n) == <<"str", n>>

\* str(round): the numeral of an integer, the string itself for a string
StrOf(round) == round[2]

---------------------------------------------------------------------------
(* Bounds and inputs *)

MaxRecords == 2

MaxBatch == 2

MaxGames == 1

SeqsUpTo(S, n) == UNION {[1..k -> S] : k \in 0..n}

Years == {2025, 2026}

Rounds == {IntRound(0), IntRound(5)}

TipHome55 == "PREDICTED WINNER: Richmond 55%"

TipAway52 == "PREDICTED WINNER: Carlton 52%"

NoTip == "Too close to call"

\* the predictions a caller hands over: the same fixture with two texts, and a second fixture
Preds ==
  { [home_team |-> "Richmond", away_team |-> "Carlton",  prediction |-> TipHome55],
    [home_team |-> "Richmond", away_team |-> "Carlton",  prediction |-> TipAway52],
    [home_team |-> "Carlton",  away_team |-> "Richmond", prediction |-> NoTip] }

Batches == SeqsUpTo(Preds, MaxBatch)

\* the games the results feed may hold: Richmond v Carlton in round 5, won by
\* either side, drawn, or not complete yet, and the return fixture
Game(h, a, r, c, hs, as) ==
  [hteam |-> h, ateam |-> a, round |-> r, complete |-> c, hscore |-> hs, ascore |-> as]

Games ==
  { Game("Richmond", "Carlton", IntRound(5), 100, 90, 75),
    Game("Richmond", "Carlton", IntRound(5), 100, 75, 90),
    Game("Richmond", "Carlton", IntRound(5), 100, 80, 80),
    Game("Richmond", "Carlton", IntRound(5), 0, 90, 75),
    Game("Carlton", "Richmond", IntRound(5), 100, 75, 90) }

\* what the request of line 176 brings back: it fails, or it yields a list of games
FetchFailed == [ok |-> FALSE, games |-> <<>>]

\* the inputs of TipSpec, the runs on what a text tips: two fixtures, each with
\* an empty text, a text that names no team, and two texts that name a team,
\* of the fixture or not; every fixture with a home win, an away win and a draw
TipFixtures == {<<"Richmond", "Carlton">>, <<"Melbourne", "North Melbourne">>}

TipTexts == {"", NoTip, TipHome55, "PREDICTED WINNER: North Melbourne"}

TipPreds ==
  {[home_team |-> f[1], away_team |-> f[2], prediction |-> t] : f \in TipFixtures, t \in TipTexts}

TipGames ==
  {Game(f[1], f[2], IntRound(5), 100, score[1], score[2]) :
     f \in TipFixtures, score \in {<<90, 75>>, <<75, 90>>, <<80, 80>>}}

TipFeeds ==
  {FetchFailed} \cup {[ok |-> TRUE, games |-> gs] : gs \in SeqsUpTo(TipGames, MaxGames)}

Feeds == {FetchFailed} \cup {[ok |-> TRUE, games |-> gs] : gs \in SeqsUpTo(Games, MaxGames)}

\* no request was made
NotFetched == [ok |-> FALSE, games |-> <<>>, asked |-> FALSE]

---------------------------------------------------------------------------
(* The record store: load_history, save_history *)

EmptyHistory == [predictions |-> <<>>, accuracy_summary |-> <<>>]

\* the file as it is on disk: missing, unparseable, or holding a document
NoFile == [exists |-> FALSE, parses |-> FALSE, doc |-> EmptyHistory]

\* load_history without the try of lines 31-35: what json.load leaves is handed on
load_history_unguarded(file) ==
  IF ~file.exists THEN EmptyHistory
  ELSE file.doc

load_history(file) ==
  IF ~file.exists THEN EmptyHistory
  ELSE IF ~file.parses THEN EmptyHistory
  ELSE file.doc

\* the file after save_history(history) has returned
save_history(history) == [exists |-> TRUE, parses |-> TRUE, doc |-> history]

---------------------------------------------------------------------------
(* save_predictions *)

\* Existing with the stored round compared to the year
ExistingWrongField(predictions, pred, round_number, year) ==
  LET same == {i \in 1..Len(predictions) :
                 /\ predictions[i].home_team = pred.home_team
                 /\ predictions[i].away_team = pred.away_team
                 /\ predictions[i].round = IntRound(year)
                 /\ predictions[i].year = year}
  IN  IF same = {} THEN None
      ELSE Some(predictions[CHOOSE i \in same : \A j \in same : i <= j])

\* lines 55-61: the first stored record with the prediction's key, None when there is none
Existing(predictions, pred, round_number, year) ==
  LET same == {i \in 1..Len(predictions) :
                 /\ predictions[i].home_team = pred.home_team
                 /\ predictions[i].away_team = pred.away_team
                 /\ predictions[i].round = round_number
                 /\ predictions[i].year = year}
  IN  IF same = {} THEN None
      ELSE Some(predictions[CHOOSE i \in same : \A j \in same : i <= j])

\* lines 68-70 and 71-73 for each prediction a caller may hand over; the two
\* tables are evaluated once
ExtractedWinner ==
  [pred \in Preds \cup TipPreds |->
     extract_predicted_winner(Chars(pred.prediction), pred.home_team, pred.away_team)]

ExtractedProbability ==
  [pred \in Preds \cup TipPreds |->
     extract_predicted_probability(Chars(pred.prediction), ExtractedWinner[pred])]

\* lines 75-89: the record built for a prediction that is not stored yet
NewRecord(pred, round_number, year) ==
  LET predicted_winner      == ExtractedWinner[pred]
      predicted_probability == ExtractedProbability[pred]
  IN  [year                  |-> year,
       round                 |-> round_number,
       home_team             |-> pred.home_team,
       away_team             |-> pred.away_team,
       predicted_winner      |-> predicted_winner,
       predicted_probability |-> predicted_probability,
       prediction_text       |-> pred.prediction,
       actual_winner         |-> None,
       actual_margin         |-> None,
       correct               |-> None]

\* SaveLoop with every prediction checked against the list as it was loaded
RECURSIVE SaveLoopFrom(_, _, _, _, _)
SaveLoopFrom(loaded, predictions, predictions_list, round_number, year) ==
  IF predictions_list = <<>> THEN predictions
  ELSE LET pred == Head(predictions_list)
       IN  IF Existing(loaded, pred, round_number, year) # None
             THEN SaveLoopFrom(loaded, predictions, Tail(predictions_list), round_number, year)
             ELSE SaveLoopFrom(loaded, Append(predictions, NewRecord(pred, round_number, year)),
                               Tail(predictions_list), round_number, year)

SaveLoopAgainstLoaded(predictions, predictions_list, round_number, year) ==
  SaveLoopFrom(predictions, predictions, predictions_list, round_number, year)

\* SaveLoop with a stored record replaced by the record of the new prediction
RECURSIVE SaveLoopOverwrite(_, _, _, _)
SaveLoopOverwrite(predictions, predictions_list, round_number, year) ==
  IF predictions_list = <<>> THEN predictions
  ELSE LET pred == Head(predictions_list)
           same == {i \in 1..Len(predictions) :
                      Some(predictions[i]) = Existing(predictions, pred, round_number, year)}
       IN  IF same # {}
             THEN SaveLoopOverwrite(
                    [i \in 1..Len(predictions) |->
                       IF i \in same THEN NewRecord(pred, round_number, year)
                       ELSE predictions[i]],
                    Tail(predictions_list), round_number, year)
             ELSE SaveLoopOverwrite(Append(predictions, NewRecord(pred, round_number, year)),
                                    Tail(predictions_list), round_number, year)

\* lines 53-91: the loop over predictions_list, each prediction checked
\* against the list as the predictions before it have left it
RECURSIVE SaveLoop(_, _, _, _)
SaveLoop(predictions, predictions_list, round_number, year) ==
  IF predictions_list = <<>> THEN predictions
  ELSE LET pred == Head(predictions_list)
       IN  IF Existing(predictions, pred, round_number, year) # None
             THEN SaveLoop(predictions, Tail(predictions_list), round_number, year)
             ELSE SaveLoop(Append(predictions, NewRecord(pred, round_number, year)),
                           Tail(predictions_list), round_number, year)

\* SavedHistory with the summary left out of what is saved
SavedHistoryWithoutSummary(file, predictions_list, round_number, year) ==
  [predictions      |-> SaveLoop(load_history(file).predictions, predictions_list,
                                 round_number, year),
   accuracy_summary |-> <<>>]

\* the history save_predictions saves and returns
SavedHistory(file, predictions_list, round_number, year) ==
  LET history == load_history(file)
  IN  [history EXCEPT !.predictions =
         SaveLoop(history.predictions, predictions_list, round_number, year)]

---------------------------------------------------------------------------
(* calculate_accuracy_summary *)

FavouriteThreshold == 55

\* indices of the records for which pred(record) holds, as a count
CountOf(records, Test(_)) == Cardinality({i \in 1..Len(records) : Test(records[i])})

\* round((part / whole) * 100, 1) in tenths, for whole > 0; a tie goes to the even tenth
Pct(part, whole) ==
  LET q == (part * 1000) \div whole
      r == (part * 1000) % whole
  IN  IF 2 * r > whole \/ (2 * r = whole /\ q % 2 = 1) THEN q + 1 ELSE q

IsCompleted(p) == p.correct # None

IsCorrect(p) == p.correct = Some(TRUE)

\* line 252
IsUpsetPick(p) ==
  /\ p.predicted_probability # None
  /\ p.predicted_probability[1] # 0
  /\ p.predicted_probability[1] < FavouriteThreshold * 10

\* IsFavouritePick with the threshold itself left out
IsFavouritePickAbove(p) ==
  /\ p.predicted_probability # None
  /\ p.predicted_probability[1] # 0
  /\ p.predicted_probability[1] > FavouriteThreshold * 10

\* line 253
IsFavouritePick(p) ==
  /\ p.predicted_probability # None
  /\ p.predicted_probability[1] # 0
  /\ p.predicted_probability[1] >= FavouriteThreshold * 10

\* calculate_accuracy_summary with the correct tips of all rounds counted in each round
calculate_accuracy_summary_correct_of_all(predictions) ==
  LET completed == SelectSeq(predictions, IsCompleted)
      total     == Len(completed)
      correct   == CountOf(completed, IsCorrect)
      keys      == {StrOf(completed[i].round) : i \in 1..Len(completed)}
      InRound(r, p)        == StrOf(p.round) = r
      RoundTotal(r)        == LET T(p) == InRound(r, p) IN CountOf(completed, T)
      FavCorrect(p)        == IsFavouritePick(p) /\ IsCorrect(p)
      UpsetCorrect(p)      == IsUpsetPick(p) /\ IsCorrect(p)
  IN  IF total = 0 THEN <<>>
      ELSE [overall_correct      |-> correct,
            overall_total        |-> total,
            overall_accuracy_pct |-> Pct(correct, total),
            by_round             |-> [r \in keys |->
                                        [correct |-> correct,
                                         total   |-> RoundTotal(r),
                                         pct     |-> Pct(correct, RoundTotal(r))]],
            favourite_picks      |-> [correct |-> CountOf(completed, FavCorrect),
                                      total   |-> CountOf(completed, IsFavouritePick)],
            upset_picks          |-> [correct |-> CountOf(completed, UpsetCorrect),
                                      total   |-> CountOf(completed, IsUpsetPick)]]

\* lines 230-276, without last_updated
calculate_accuracy_summary(predictions) ==
  LET completed == SelectSeq(predictions, IsCompleted)
      total     == Len(completed)
      correct   == CountOf(completed, IsCorrect)
      keys      == {StrOf(completed[i].round) : i \in 1..Len(completed)}
      InRound(r, p)        == StrOf(p.round) = r
      RoundTotal(r)        == LET T(p) == InRound(r, p) IN CountOf(completed, T)
      RoundCorrect(r)      == LET T(p) == InRound(r, p) /\ IsCorrect(p) IN CountOf(completed, T)
      FavCorrect(p)        == IsFavouritePick(p) /\ IsCorrect(p)
      UpsetCorrect(p)      == IsUpsetPick(p) /\ IsCorrect(p)
  IN  IF total = 0 THEN <<>>
      ELSE [overall_correct      |-> correct,
            overall_total        |-> total,
            overall_accuracy_pct |-> Pct(correct, total),
            by_round             |-> [r \in keys |->
                                        [correct |-> RoundCorrect(r),
                                         total   |-> RoundTotal(r),
                                         pct     |-> Pct(RoundCorrect(r), RoundTotal(r))]],
            favourite_picks      |-> [correct |-> CountOf(completed, FavCorrect),
                                      total   |-> CountOf(completed, IsFavouritePick)],
            upset_picks          |-> [correct |-> CountOf(completed, UpsetCorrect),
                                      total   |-> CountOf(completed, IsUpsetPick)]]

---------------------------------------------------------------------------
(* check_and_update_results *)

CompleteValue == 100

\* IsPending without the test that the record has no result yet
IsPendingAnyOfYear(p, year) == p.year = year

\* line 168
IsPending(p, year) == p.correct = None /\ p.year = year

\* IsCompleteGame with every game of the feed taken as complete
IsCompleteGameAny(g) == g.complete >= 0

\* line 178
IsCompleteGame(g) == g.complete = CompleteValue

\* Match without the comparison of the rounds
MatchIgnoringRound(completed_games, pred) ==
  LET hits == {k \in 1..Len(completed_games) :
                 /\ completed_games[k].hteam = pred.home_team
                 /\ completed_games[k].ateam = pred.away_team}
  IN  IF hits = {} THEN None
      ELSE Some(completed_games[CHOOSE k \in hits : \A j \in hits : k <= j])

\* lines 185-190: the first completed game with the record's home team, away team and round
Match(completed_games, pred) ==
  LET hits == {k \in 1..Len(completed_games) :
                 /\ completed_games[k].hteam = pred.home_team
                 /\ completed_games[k].ateam = pred.away_team
                 /\ StrOf(completed_games[k].round) = StrOf(pred.round)}
  IN  IF hits = {} THEN None
      ELSE Some(completed_games[CHOOSE k \in hits : \A j \in hits : k <= j])

\* ActualWinner with a tie going to the home team
ActualWinnerHomeOnTie(pred, home_score, away_score) ==
  IF home_score >= away_score THEN pred.home_team
  ELSE pred.away_team

\* ActualWinner with "Unknown" for a game that nobody won
ActualWinnerUnknownOnTie(pred, home_score, away_score) ==
  IF home_score > away_score THEN pred.home_team
  ELSE IF away_score > home_score THEN pred.away_team
  ELSE "Unknown"

\* lines 199-204
ActualWinner(pred, home_score, away_score) ==
  IF home_score > away_score THEN pred.home_team
  ELSE IF away_score > home_score THEN pred.away_team
  ELSE "Draw"

\* ActualMargin without abs
ActualMarginSigned(home_score, away_score) == home_score - away_score

\* line 206
ActualMargin(home_score, away_score) == Abs(home_score - away_score)

\* Resolve with correct set when the home team won
ResolveCorrectIfHomeWins(pred, match) ==
  LET actual_winner == ActualWinner(pred, match.hscore, match.ascore)
  IN  [pred EXCEPT !.actual_winner = Some(actual_winner),
                   !.actual_margin = Some(ActualMargin(match.hscore, match.ascore)),
                   !.correct       = Some(actual_winner = pred.home_team)]

\* lines 195-213: the record after it has been matched to a game
Resolve(pred, match) ==
  LET home_score    == match.hscore
      away_score    == match.ascore
      actual_winner == ActualWinner(pred, home_score, away_score)
      actual_margin == ActualMargin(home_score, away_score)
      correct       == (pred.predicted_winner = actual_winner)
  IN  [pred EXCEPT !.actual_winner = Some(actual_winner),
                   !.actual_margin = Some(actual_margin),
                   !.correct       = Some(correct)]

\* lines 183-213: the predictions after the loop over the pending records
UpdatePending(predictions, completed_games, year) ==
  [i \in 1..Len(predictions) |->
     IF IsPending(predictions[i], year) /\ Match(completed_games, predictions[i]) # None
       THEN Resolve(predictions[i], Match(completed_games, predictions[i])[1])
       ELSE predictions[i]]

HasPending(history, year) ==
  \E i \in 1..Len(history.predictions) : IsPending(history.predictions[i], year)

\* ReconciledHistory with the summary computed from the records of the year only
ReconciledHistoryThisYear(file, all_games, year) ==
  LET history         == load_history(file)
      completed_games == SelectSeq(all_games, IsCompleteGame)
      predictions     == UpdatePending(history.predictions, completed_games, year)
      OfYear(p)       == p.year = year
  IN  [predictions      |-> predictions,
       accuracy_summary |-> calculate_accuracy_summary(SelectSeq(predictions, OfYear))]

\* lines 183-221: the history check_and_update_results saves when records are
\* pending and the fetch has succeeded
ReconciledHistory(file, all_games, year) ==
  LET history         == load_history(file)
      completed_games == SelectSeq(all_games, IsCompleteGame)
      predictions     == UpdatePending(history.predictions, completed_games, year)
  IN  [predictions      |-> predictions,
       accuracy_summary |-> calculate_accuracy_summary(predictions)]

---------------------------------------------------------------------------
(* The entry points as actions *)

\* no entry point is running
Idle == [op |-> "idle", predictions_list |-> <<>>, round_number |-> IntRound(0),
         year |-> 0, feed |-> NotFetched, before |-> NoFile, returned |-> None,
         again |-> FALSE]

Init ==
  /\ disk = NoFile
  /\ call = Idle

\* the body of save_predictions; again tells a call that repeats the call before it
RunSavePredictions(predictions_list, round_number, year, again) ==
  LET history == SavedHistory(disk, predictions_list, round_number, year)
  IN  /\ Len(history.predictions) <= MaxRecords
      /\ disk' = save_history(history)
      /\ call' = [op |-> "save_predictions", predictions_list |-> predictions_list,
                  round_number |-> round_number, year |-> year, feed |-> NotFetched,
                  before |-> disk, returned |-> Some(history), again |-> again]

\* save_predictions(predictions_list, round_number, year)
SavePredictions(predictions_list, round_number, year) ==
  /\ call = Idle
  /\ RunSavePredictions(predictions_list, round_number, year, FALSE)

\* save_predictions called a second time, right after the first, with the same arguments
SavePredictionsAgain ==
  /\ call.op = "save_predictions"
  /\ ~call.again
  /\ RunSavePredictions(call.predictions_list, call.round_number, call.year, TRUE)

\* CheckAndUpdateResults with a failed request read as a response without games
CheckAndUpdateResultsFailureAsEmpty(year) ==
  LET history == load_history(disk)
      Ran(feed, returned) ==
        [op |-> "check_and_update_results", predictions_list |-> <<>>,
         round_number |-> IntRound(0), year |-> year, feed |-> feed, before |-> disk,
         returned |-> returned, again |-> FALSE]
  IN  /\ call = Idle
      /\ IF ~HasPending(history, year)
           THEN /\ disk' = disk
                /\ call' = Ran(NotFetched, None)
           ELSE \E feed \in Feeds :
                  LET reconciled == ReconciledHistory(disk, feed.games, year)
                  IN  /\ disk' = save_history(reconciled)
                      /\ call' = Ran(feed, Some(reconciled.accuracy_summary))

\* CheckAndUpdateResults without the early return of lines 170-172
CheckAndUpdateResultsNoEarlyReturn(year) ==
  LET Ran(feed, returned) ==
        [op |-> "check_and_update_results", predictions_list |-> <<>>,
         round_number |-> IntRound(0), year |-> year, feed |-> feed, before |-> disk,
         returned |-> returned, again |-> FALSE]
  IN  /\ call = Idle
      /\ \E feed \in Feeds :
           IF ~feed.ok
             THEN /\ disk' = disk
                  /\ call' = Ran(feed, None)
             ELSE LET reconciled == ReconciledHistory(disk, feed.games, year)
                  IN  /\ disk' = save_history(reconciled)
                      /\ call' = Ran(feed, Some(reconciled.accuracy_summary))

\* check_and_update_results(year), the request answered by one of feeds when it is made
CheckAndUpdateResultsFrom(year, feeds) ==
  LET history == load_history(disk)
      Ran(feed, returned) ==
        [op |-> "check_and_update_results", predictions_list |-> <<>>,
         round_number |-> IntRound(0), year |-> year, feed |-> feed, before |-> disk,
         returned |-> returned, again |-> FALSE]
  IN  /\ call = Idle
      /\ IF ~HasPending(history, year)
           THEN /\ disk' = disk
                /\ call' = Ran(NotFetched, None)
           ELSE \E feed \in feeds :
                  IF ~feed.ok
                    THEN /\ disk' = disk
                         /\ call' = Ran(feed, None)
                    ELSE LET reconciled == ReconciledHistory(disk, feed.games, year)
                         IN  /\ disk' = save_history(reconciled)
                             /\ call' = Ran(feed, Some(reconciled.accuracy_summary))

\* check_and_update_results(year)
CheckAndUpdateResults(year) == CheckAndUpdateResultsFrom(year, Feeds)

\* the entry point has returned to its caller
Return ==
  /\ call # Idle
  /\ call' = Idle
  /\ UNCHANGED disk

Next ==
  \/ \E predictions_list \in Batches, round_number \in Rounds, year \in Years :
       SavePredictions(predictions_list, round_number, year)
  \/ SavePredictionsAgain
  \/ \E year \in Years : CheckAndUpdateResults(year)
  \/ Return

Spec == Init /\ [][Next]_vars

---------------------------------------------------------------------------
(* The file as text: json.dump(history, f, indent=2) and json.load(f)      *)
(*                                                                         *)
(* A JSON value is a tagged tuple: <<"null">>, <<"true">>, <<"false">>,    *)
(* <<"num", n>> for an integer numeral, <<"float", t>> for a numeral with  *)
(* a fraction (t in tenths), <<"str", s>> for a string.  The text of a     *)
(* document is the sequence of the pieces json.dump writes one after the   *)
(* other: the opening of the object, one object per record, the            *)
(* accuracy_summary object, the closing brace.                             *)

JsonNull == <<"null">>

JsonNum(n) == <<"num", n>>

JsonFloat(t) == <<"float", t>>

JsonStr(s) == <<"str", s>>

JsonBool(b) == IF b THEN <<"true">> ELSE <<"false">>

\* JsonRound with the round written as str(round)
JsonRoundAsString(round) == JsonStr(round[2])

\* an int is written as a numeral, a str between quotes
JsonRound(round) == IF round[1] = "int" THEN JsonNum(round[2]) ELSE JsonStr(round[2])

\* the value json.load builds for a JSON value
PyRound(j) == IF j[1] = "num" THEN IntRound(j[2]) ELSE StrRound(j[2])

PyOpt(j) == IF j[1] = "null" THEN None ELSE Some(j[2])

PyOptBool(j) == IF j[1] = "null" THEN None ELSE Some(j[1] = "true")

JsonRecord(p) ==
  [year                  |-> JsonNum(p.year),
   round                 |-> JsonRound(p.round),
   home_team             |-> JsonStr(p.home_team),
   away_team             |-> JsonStr(p.away_team),
   predicted_winner      |-> JsonStr(p.predicted_winner),
   predicted_probability |-> IF p.predicted_probability = None THEN JsonNull
                             ELSE JsonFloat(p.predicted_probability[1]),
   prediction_text       |-> JsonStr(p.prediction_text),
   actual_winner         |-> IF p.actual_winner = None THEN JsonNull
                             ELSE JsonStr(p.actual_winner[1]),
   actual_margin         |-> IF p.actual_margin = None THEN JsonNull
                             ELSE JsonNum(p.actual_margin[1]),
   correct               |-> IF p.correct = None THEN JsonNull
                             ELSE JsonBool(p.correct[1])]

PyRecord(j) ==
  [year                  |-> j.year[2],
   round                 |-> PyRound(j.round),
   home_team             |-> j.home_team[2],
   away_team             |-> j.away_team[2],
   predicted_winner      |-> j.predicted_winner[2],
   predicted_probability |-> PyOpt(j.predicted_probability),
   prediction_text       |-> j.prediction_text[2],
   actual_winner         |-> PyOpt(j.actual_winner),
   actual_margin         |-> PyOpt(j.actual_margin),
   correct               |-> PyOptBool(j.correct)]

JsonTally(t) == [correct |-> JsonNum(t.correct), total |-> JsonNum(t.total)]

PyTally(j) == [correct |-> j.correct[2], total |-> j.total[2]]

\* the accuracy_summary: {} or the dict of lines 255-276
JsonSummary(s) ==
  IF s = <<>> THEN <<"object">>
  ELSE <<"object",
         [overall_correct      |-> JsonNum(s.overall_correct),
          overall_total        |-> JsonNum(s.overall_total),
          overall_accuracy_pct |-> JsonFloat(s.overall_accuracy_pct),
          by_round             |-> [r \in DOMAIN s.by_round |->
                                      [correct |-> JsonNum(s.by_round[r].correct),
                                       total   |-> JsonNum(s.by_round[r].total),
                                       pct     |-> JsonFloat(s.by_round[r].pct)]],
          favourite_picks      |-> JsonTally(s.favourite_picks),
          upset_picks          |-> JsonTally(s.upset_picks)]>>

PySummary(j) ==
  IF Len(j) = 1 THEN <<>>
  ELSE LET o == j[2]
       IN  [overall_correct      |-> o.overall_correct[2],
            overall_total        |-> o.overall_total[2],
            overall_accuracy_pct |-> o.overall_accuracy_pct[2],
            by_round             |-> [r \in DOMAIN o.by_round |->
                                        [correct |-> o.by_round[r].correct[2],
                                         total   |-> o.by_round[r].total[2],
                                         pct     |-> o.by_round[r].pct[2]]],
            favourite_picks      |-> PyTally(o.favourite_picks),
            upset_picks          |-> PyTally(o.upset_picks)]

\* the text json.dump writes for a history
json_dump(history) ==
  <<[piece |-> "{"]>>
    \o [i \in 1..Len(history.predictions) |->
          [piece |-> "record", json |-> JsonRecord(history.predictions[i])]]
    \o <<[piece |-> "summary", json |-> JsonSummary(history.accuracy_summary)],
         [piece |-> "}"]>>

\* the text is a whole document: it opens, holds records, a summary, and closes
WellFormed(text) ==
  /\ Len(text) >= 3
  /\ text[1].piece = "{"
  /\ text[Len(text)].piece = "}"
  /\ text[Len(text) - 1].piece = "summary"
  /\ \A i \in 2..(Len(text) - 2) : text[i].piece = "record"

\* json.load: the document of a text that is whole, None for a text on which it raises
json_load(text) ==
  IF ~WellFormed(text) THEN None
  ELSE Some([predictions      |-> [i \in 1..(Len(text) - 3) |-> PyRecord(text[i + 1].json)],
             accuracy_summary |-> PySummary(text[Len(text) - 1].json)])

\* the file of the text-level model: does it exist, and its text
NoTextFile == [exists |-> FALSE, text |-> <<>>]

\* the file once json.dump has written the first n pieces of the document
Written(history, n) == [exists |-> TRUE, text |-> SubSeq(json_dump(history), 1, n)]

\* json.load has raised: what is left where the document would be
Unparsed == [predictions |-> <<>>, accuracy_summary |-> <<>>, raised |-> "JSONDecodeError"]

\* what lines 29-35 find in a file: os.path.exists, and whether json.load returns
Parsed(file) ==
  IF ~file.exists THEN NoFile
  ELSE IF json_load(file.text) = None
    THEN [exists |-> TRUE, parses |-> FALSE, doc |-> Unparsed]
  ELSE [exists |-> TRUE, parses |-> TRUE, doc |-> json_load(file.text)[1]]

---------------------------------------------------------------------------
(* format_history_for_ai and get_accuracy_display_data                     *)
(*                                                                         *)
(* The text format_history_for_ai returns is held as the sequence of its   *)
(* lines, each line as the values that are formatted into it.              *)

TeamHistoryShown == 6

WrongRecentShown == 4

RecentRoundsShown == 3

\* '%.0f' % value, for a value in tenths: the nearest integer, a tie to the even one
FormatNoDecimals(t) ==
  LET q == t \div 10
      r == t % 10
  IN  IF r > 5 \/ (r = 5 /\ q % 2 = 1) THEN q + 1 ELSE q

\* the sort key of lines 332 and 350
SortKeyBefore(a, b) ==
  \/ a.year > b.year
  \/ a.year = b.year /\ StrOf(a.round) > StrOf(b.round)

\* list.sort(key=..., reverse=True): descending, records with equal keys in their order
RECURSIVE InsertDescending(_, _)
InsertDescending(sorted, x) ==
  IF sorted = <<>> THEN <<x>>
  ELSE IF SortKeyBefore(x, Head(sorted)) THEN <<x>> \o sorted
  ELSE <<Head(sorted)>> \o InsertDescending(Tail(sorted), x)

RECURSIVE SortDescending(_)
SortDescending(records) ==
  IF records = <<>> THEN <<>>
  ELSE InsertDescending(SortDescending(SubSeq(records, 1, Len(records) - 1)),
                        records[Len(records)])

\* sorted(by_round.keys(), key=lambda x: int(x)), as the sequence of the keys
RECURSIVE Ascending(_)
Ascending(keys) ==
  IF keys = {} THEN <<>>
  ELSE LET least == CHOOSE k \in keys : \A j \in keys : k <= j
       IN  <<least>> \o Ascending(keys \ {least})

\* s[-n:]
LastOf(s, n) == SubSeq(s, Max(1, Len(s) - n + 1), Len(s))

\* s[:n]
FirstOf(s, n) == SubSeq(s, 1, Min(n, Len(s)))

\* lines 299-324
AccuracyLines(accuracy) ==
  LET fav      == accuracy.favourite_picks
      upset    == accuracy.upset_picks
      by_round == accuracy.by_round
      recent   == LastOf(Ascending(DOMAIN by_round), RecentRoundsShown)
  IN  <<[line |-> "accuracy header"],
        [line |-> "overall", correct |-> accuracy.overall_correct,
         total |-> accuracy.overall_total, pct |-> accuracy.overall_accuracy_pct]>>
        \o (IF fav.total > 0
              THEN <<[line |-> "favourite picks", correct |-> fav.correct,
                      total |-> fav.total, pct |-> Pct(fav.correct, fav.total)]>>
              ELSE <<>>)
        \o (IF upset.total > 0
              THEN <<[line |-> "underdog picks", correct |-> upset.correct,
                      total |-> upset.total, pct |-> Pct(upset.correct, upset.total)]>>
              ELSE <<>>)
        \o (IF DOMAIN by_round # {}
              THEN <<[line |-> "recent rounds",
                      rounds |-> [k \in 1..Len(recent) |->
                                    [round   |-> recent[k],
                                     correct |-> by_round[recent[k]].correct,
                                     total   |-> by_round[recent[k]].total]]]>>
              ELSE <<>>)

\* lines 281-360: the lines of the text, or raised when a statement raises
format_history_for_ai(history, home_team, away_team) ==
  LET predictions == history.predictions
      accuracy    == history.accuracy_summary
      Involved(p) ==
        /\ (p.home_team \in {home_team, away_team} \/ p.away_team \in {home_team, away_team})
        /\ p.correct # None
      Wrong(p)     == p.correct = Some(FALSE)
      team_history == FirstOf(SortDescending(SelectSeq(predictions, Involved)), TeamHistoryShown)
      wrong_recent == FirstOf(SortDescending(SelectSeq(predictions, Wrong)), WrongRecentShown)
  IN  IF predictions = <<>>
        THEN [raised |-> FALSE, lines |-> <<[line |-> "no prediction history yet"]>>]
      ELSE IF \E k \in 1..Len(team_history) : team_history[k].predicted_probability = None
        THEN [raised |-> TRUE, lines |-> <<>>]
      ELSE
        [raised |-> FALSE,
         lines  |->
           (IF accuracy # <<>> THEN AccuracyLines(accuracy) ELSE <<>>)
           \o (IF team_history # <<>>
                 THEN <<[line |-> "team header", home |-> home_team, away |-> away_team]>>
                      \o [k \in 1..Len(team_history) |->
                            [line       |-> "past prediction",
                             round      |-> team_history[k].round,
                             home_team  |-> team_history[k].home_team,
                             away_team  |-> team_history[k].away_team,
                             tipped     |-> team_history[k].predicted_winner,
                             confidence |-> FormatNoDecimals(team_history[k].predicted_probability[1]),
                             correct    |-> team_history[k].correct[1],
                             actual     |-> team_history[k].actual_winner]]
                 ELSE <<>>)
           \o (IF wrong_recent # <<>>
                 THEN <<[line |-> "wrong header"]>>
                      \o [k \in 1..Len(wrong_recent) |->
                            [line   |-> "wrong prediction",
                             round  |-> wrong_recent[k].round,
                             tipped |-> wrong_recent[k].predicted_winner,
                             actual |-> wrong_recent[k].actual_winner,
                             margin |-> wrong_recent[k].actual_margin]]
                 ELSE <<>>)]

\* lines 365-381
get_accuracy_display_data(history) ==
  LET predictions == history.predictions
      Pending(p)  == p.correct = None
  IN  [accuracy_summary      |-> history.accuracy_summary,
       completed_predictions |-> SelectSeq(predictions, IsCompleted),
       pending_predictions   |-> SelectSeq(predictions, Pending),
       all_predictions       |-> predictions]

---------------------------------------------------------------------------
(* The entry points statement by statement                                 *)
(*                                                                         *)
(* In the specifications StepSpec and RaceSpec the variable disk is the    *)
(* file as text and the variable call holds the invocations in flight:     *)
(* for each process its entry point, its arguments, its local history and  *)
(* the statement it has reached; with them the number of invocations begun *)
(* so far, the keys of the records a completed save has written (ever),    *)
(* and the process whose save was the last (last).  StepSpec runs one      *)
(* invocation at a time and lets the process die inside save_history;      *)
(* RaceSpec runs two processes on the same file.  Two processes never      *)
(* write the file at the same time: save_history is one step there.        *)

MaxCalls == 3

Procs == {1, 2}

\* the arguments of the step-level runs
StepYear == 2026

StepRound == IntRound(5)

StepPreds ==
  { [home_team |-> "Richmond", away_team |-> "Carlton",  prediction |-> TipHome55],
    [home_team |-> "Carlton",  away_team |-> "Richmond", prediction |-> NoTip] }

StepBatches == SeqsUpTo(StepPreds, MaxBatch)

\* the games of the feed as response.json() holds them, the scores as JSON
\* values: two games with both scores, one with a null home score, one
\* without the key hscore
StepGames ==
  { Game("Richmond", "Carlton", IntRound(5), 100, JsonNum(90), JsonNum(75)),
    Game("Carlton", "Richmond", IntRound(5), 100, JsonNum(75), JsonNum(90)),
    Game("Carlton", "Richmond", IntRound(5), 100, JsonNull, JsonNum(90)),
    [hteam |-> "Carlton", ateam |-> "Richmond", round |-> IntRound(5), complete |-> 100,
     ascore |-> JsonNum(90)] }

StepFeeds ==
  {FetchFailed} \cup {[ok |-> TRUE, games |-> gs] : gs \in SeqsUpTo(StepGames, MaxGames)}

\* a process that runs no entry point
IdleProc ==
  [pc |-> "idle", op |-> "none", predictions_list |-> <<>>, history |-> EmptyHistory,
   i |-> 0, completed_games |-> <<>>, loads |-> 0, saves |-> 0, returned |-> None,
   loaded |-> EmptyHistory, previous |-> EmptyHistory, missed |-> {}]

\* the state of the process p
Proc(p) == call.procs[p]

\* the key of a record
KeyOf(p) == <<p.year, p.round, p.home_team, p.away_team>>

KeysOf(records) == {KeyOf(records[i]) : i \in 1..Len(records)}

RecordsOf(records) == {records[i] : i \in 1..Len(records)}

\* line 27 on the file as text
LoadText(file) == load_history(Parsed(file))

StepInit ==
  /\ disk = NoTextFile
  /\ call = [procs |-> [p \in Procs |-> IdleProc], calls |-> 0, ever |-> {}, last |-> 0]

\* the process p moves to the state proc
Moves(p, proc) == call' = [call EXCEPT !.procs[p] = proc]

\* an invocation begins by process p
Begins(p, proc) == call' = [call EXCEPT !.procs[p] = proc, !.calls = @ + 1]

CanBegin(p) ==
  /\ call.procs[p].pc = "idle"
  /\ call.calls < MaxCalls

\* save_predictions, line 51
SP_Load(p, predictions_list) ==
  LET history == LoadText(disk)
  IN  /\ CanBegin(p)
      /\ Begins(p, [IdleProc EXCEPT !.pc = IF predictions_list = <<>> THEN "save" ELSE "loop",
                                    !.op = "save_predictions",
                                    !.predictions_list = predictions_list,
                                    !.history = history,
                                    !.loaded = history,
                                    !.i = 1,
                                    !.loads = 1])
      /\ UNCHANGED disk

\* the process after one round of the loop of lines 53-91
AfterLoop(proc) ==
  LET pred == proc.predictions_list[proc.i]
      predictions == proc.history.predictions
  IN  [proc EXCEPT !.history.predictions =
                     IF Existing(predictions, pred, StepRound, StepYear) # None
                       THEN predictions
                       ELSE Append(predictions, NewRecord(pred, StepRound, StepYear)),
                   !.i = @ + 1,
                   !.pc = IF proc.i = Len(proc.predictions_list) THEN "save" ELSE "loop"]

\* SP_Loop with the history saved as soon as a record is appended
SP_LoopSaving(p) ==
  LET proc  == call.procs[p]
      after == AfterLoop(proc)
  IN  /\ proc.pc = "loop"
      /\ IF after.history = proc.history
           THEN /\ Moves(p, after)
                /\ UNCHANGED disk
           ELSE /\ Moves(p, [after EXCEPT !.saves = @ + 1])
                /\ disk' = Written(after.history, Len(json_dump(after.history)))

\* save_predictions, lines 53-91: one prediction of the batch
SP_Loop(p) ==
  LET proc == call.procs[p]
  IN  /\ proc.pc = "loop"
      /\ Moves(p, AfterLoop(proc))
      /\ UNCHANGED disk

\* check_and_update_results, lines 164-172
CR_Load(p) ==
  LET history == LoadText(disk)
      proc    == [IdleProc EXCEPT !.op = "check_and_update_results",
                                  !.history = history,
                                  !.loaded = history,
                                  !.loads = 1]
  IN  /\ CanBegin(p)
      /\ IF HasPending(history, StepYear)
           THEN Begins(p, [proc EXCEPT !.pc = "fetch"])
           ELSE Begins(p, [proc EXCEPT !.pc = "done"])
      /\ UNCHANGED disk

\* check_and_update_results, lines 175-181
CR_Fetch(p) ==
  LET proc == call.procs[p]
  IN  /\ proc.pc = "fetch"
      /\ \E feed \in StepFeeds :
           IF ~feed.ok
             THEN Moves(p, [proc EXCEPT !.pc = "done"])
             ELSE Moves(p, [proc EXCEPT !.pc = "update",
                                        !.i = 1,
                                        !.completed_games = SelectSeq(feed.games, IsCompleteGame)])
      /\ UNCHANGED disk

\* match.get(key, 0), lines 196-197: the JSON value under the key, 0 without the key
ScoreOf(match, key) == IF key \in DOMAIN match THEN match[key] ELSE JsonNum(0)

\* the comparisons of lines 199 and 201 and the subtraction of line 206 raise
\* TypeError when a score is None
ScoresRaise(match) ==
  ScoreOf(match, "hscore") = JsonNull \/ ScoreOf(match, "ascore") = JsonNull

\* the game with the two scores as the integers that lines 196-197 have read
Scored(match) ==
  Game(match.hteam, match.ateam, match.round, match.complete,
       ScoreOf(match, "hscore")[2], ScoreOf(match, "ascore")[2])

\* check_and_update_results, lines 183-213: one record of the history, touched
\* when it is pending; the invocation ends by raising when a score is None
CR_Loop(p) ==
  LET proc == call.procs[p]
      pred == proc.history.predictions[proc.i]
      match == Match(proc.completed_games, pred)
  IN  /\ proc.pc = "update"
      /\ proc.i <= Len(proc.history.predictions)
      /\ IF IsPending(pred, StepYear) /\ match # None
           THEN IF ScoresRaise(match[1])
                  THEN Moves(p, [proc EXCEPT !.pc = "raised"])
                  ELSE Moves(p, [proc EXCEPT !.history.predictions[proc.i] =
                                               Resolve(pred, Scored(match[1])),
                                             !.i = @ + 1])
           ELSE Moves(p, [proc EXCEPT !.i = @ + 1])
      /\ UNCHANGED disk

\* check_and_update_results, line 221
CR_Summarise(p) ==
  LET proc == call.procs[p]
  IN  /\ proc.pc = "update"
      /\ proc.i > Len(proc.history.predictions)
      /\ Moves(p, [proc EXCEPT !.history.accuracy_summary =
                                 calculate_accuracy_summary(proc.history.predictions),
                               !.pc = "save"])
      /\ UNCHANGED disk

\* what the entry point returns once save_history has returned (lines 95 and 225)
ReturnedAfterSave(proc) ==
  IF proc.op = "save_predictions" THEN Some(proc.history)
  ELSE Some(proc.history.accuracy_summary)

\* the other processes that have loaded and not saved yet learn what they have missed
Overtaken(p, history) ==
  [q \in Procs |->
     IF q # p /\ call.procs[q].pc \in {"loop", "save", "fetch", "update"}
       THEN [call.procs[q] EXCEPT !.missed =
               @ \cup (RecordsOf(history.predictions)
                         \ RecordsOf(call.procs[q].loaded.predictions))]
       ELSE call.procs[q]]

\* the history with the records of the file that it does not hold added to it
Merged(history, file) ==
  LET current == LoadText(file).predictions
      Missing(r) == KeyOf(r) \notin KeysOf(history.predictions)
  IN  [history EXCEPT !.predictions = @ \o SelectSeq(current, Missing)]

\* SaveHistory with the history merged into what the file holds at the time of writing
SaveHistoryMerging(p) ==
  LET proc    == call.procs[p]
      history == Merged(proc.history, disk)
  IN  /\ proc.pc = "save"
      /\ disk' = Written(history, Len(json_dump(history)))
      /\ call' = [call EXCEPT
                    !.procs = [Overtaken(p, history) EXCEPT
                                 ![p] = [proc EXCEPT !.pc = "done",
                                                     !.saves = @ + 1,
                                                     !.returned = ReturnedAfterSave(proc)]],
                    !.ever = @ \cup KeysOf(history.predictions),
                    !.last = p]

\* save_history (lines 38-41) run to its end, and the return of the entry point
SaveHistory(p) ==
  LET proc    == call.procs[p]
      history == proc.history
  IN  /\ proc.pc = "save"
      /\ disk' = Written(history, Len(json_dump(history)))
      /\ call' = [call EXCEPT
                    !.procs = [Overtaken(p, history) EXCEPT
                                 ![p] = [proc EXCEPT !.pc = "done",
                                                     !.saves = @ + 1,
                                                     !.returned = ReturnedAfterSave(proc)]],
                    !.ever = @ \cup KeysOf(history.predictions),
                    !.last = p]

\* the process dies inside save_history: the file has been opened for writing
\* (line 40) and holds the pieces that json.dump (line 41) has written so far
SaveCrash(p) ==
  LET proc == call.procs[p]
  IN  /\ proc.pc = "save"
      /\ \E n \in 0..Len(json_dump(proc.history)) :
           disk' = Written(proc.history, n)
      /\ Moves(p, [proc EXCEPT !.pc = "crashed", !.previous = LoadText(disk)])

\* format_history_for_ai(home_team, away_team): line 289 and the text built from what it loaded
FH_Load(p, home_team, away_team) ==
  LET history == LoadText(disk)
      text    == format_history_for_ai(history, home_team, away_team)
  IN  /\ CanBegin(p)
      /\ Begins(p, [IdleProc EXCEPT !.op = "format_history_for_ai",
                                    !.pc = IF text.raised THEN "raised" ELSE "done",
                                    !.history = history,
                                    !.loaded = history,
                                    !.loads = 1,
                                    !.returned = IF text.raised THEN None ELSE Some(text.lines)])
      /\ UNCHANGED disk

\* get_accuracy_display_data(): line 369 and the dict built from what it loaded
GD_Load(p) ==
  LET history == LoadText(disk)
  IN  /\ CanBegin(p)
      /\ Begins(p, [IdleProc EXCEPT !.op = "get_accuracy_display_data",
                                    !.pc = "done",
                                    !.history = history,
                                    !.loaded = history,
                                    !.loads = 1,
                                    !.returned = Some(get_accuracy_display_data(history))])
      /\ UNCHANGED disk

\* the invocation is over: it has returned, raised, or its process has died
StepReturn(p) ==
  /\ call.procs[p].pc \in {"done", "raised", "crashed"}
  /\ Moves(p, IdleProc)
  /\ UNCHANGED disk

\* a step of the process p
Step(p) ==
  \/ \E predictions_list \in StepBatches : SP_Load(p, predictions_list)
  \/ SP_Loop(p)
  \/ CR_Load(p)
  \/ CR_Fetch(p)
  \/ CR_Loop(p)
  \/ CR_Summarise(p)
  \/ SaveHistory(p)
  \/ FH_Load(p, "Richmond", "Carlton")
  \/ GD_Load(p)
  \/ StepReturn(p)

\* one invocation at a time, by one process that may die inside save_history
StepNext ==
  \/ Step(1)
  \/ SaveCrash(1)

StepSpec == StepInit /\ [][StepNext]_vars

\* the batches of the runs of two processes: one prediction each
RaceBatches == {<<pred>> : pred \in StepPreds}

\* a step of the process p when two processes run: the entry points that save;
\* process 2 begins an invocation only while process 1 is running one
RaceStep(p) ==
  \/ /\ p = 1 \/ Proc(1).pc # "idle"
     /\ \/ \E predictions_list \in RaceBatches : SP_Load(p, predictions_list)
        \/ CR_Load(p)
  \/ SP_Loop(p)
  \/ CR_Fetch(p)
  \/ CR_Loop(p)
  \/ CR_Summarise(p)
  \/ SaveHistory(p)
  \/ StepReturn(p)

\* two processes on the same file, none of which dies
RaceNext == \E p \in Procs : RaceStep(p)

RaceSpec == StepInit /\ [][RaceNext]_vars

---------------------------------------------------------------------------
(* The runs on what a text tips: one prediction recorded at a time, the     *)
(* results checked against a feed that holds every outcome of the fixtures  *)

TipNext ==
  \/ \E pred \in TipPreds : SavePredictions(<<pred>>, StepRound, StepYear)
  \/ CheckAndUpdateResultsFrom(StepYear, TipFeeds)
  \/ Return

TipSpec == Init /\ [][TipNext]_vars

---------------------------------------------------------------------------
(* run_weekly_predictions, src/predict.py                                  *)
(*                                                                         *)
(* The match list is what compile_match_data makes of the upcoming         *)
(* fixtures: each fixture once, with the round of its game.  The text of   *)
(* a prediction is what the language model answers, one of WeeklyTexts.    *)

WeeklyRounds == {IntRound(0), IntRound(5), IntRound(6)}

WeeklyMatches ==
  {[home_team |-> f[1], away_team |-> f[2], round |-> r] : f \in TipFixtures, r \in WeeklyRounds}

\* the lists of matches in which no fixture comes twice
WeeklyLists ==
  {ms \in SeqsUpTo(WeeklyMatches, MaxBatch) :
     \A j, k \in 1..Len(ms) : ms[j].home_team = ms[k].home_team => j = k}

WeeklyTexts == {TipHome55, NoTip}

WeeklyGames ==
  {Game(f[1], f[2], r, 100, 90, 75) : f \in TipFixtures, r \in WeeklyRounds \ {IntRound(0)}}

WeeklyFeeds ==
  {FetchFailed} \cup {[ok |-> TRUE, games |-> gs] : gs \in SeqsUpTo(WeeklyGames, MaxGames)}

\* bool(round_number), line 306: None and the integer 0 are false
Truthy(round_number) ==
  /\ round_number # None
  /\ ~(round_number[1] = "int" /\ round_number[2] = 0)

\* lines 289-304: the prediction of one match, and the fields of it that
\* save_predictions reads (lines 57-58, 69, 80-81, 84)
Predicted(match, prediction_text) ==
  [round |-> match.round, home_team |-> match.home_team, away_team |-> match.away_team,
   prediction |-> prediction_text]

Handed(all_predictions) ==
  [k \in 1..Len(all_predictions) |->
     [home_team  |-> all_predictions[k].home_team,
      away_team  |-> all_predictions[k].away_team,
      prediction |-> all_predictions[k].prediction]]

\* generate_prediction (line 287) calls format_history_for_ai for the two
\* teams of the match (src/predict.py line 122), outside of its try
GenerateRaises(file, match_data_list) ==
  \E k \in 1..Len(match_data_list) :
    format_history_for_ai(load_history(file), match_data_list[k].home_team,
                          match_data_list[k].away_team).raised

\* run_weekly_predictions(match_data_list, news_headlines), lines 268-310;
\* texts[k] is what generate_prediction returns for the k-th match
RunWeeklyPredictions(match_data_list, texts) ==
  LET round_number    == IF match_data_list # <<>> THEN match_data_list[1].round ELSE None
      all_predictions == [k \in 1..Len(match_data_list) |->
                            Predicted(match_data_list[k], texts[k])]
      Ran(saved, raised) ==
        [op |-> "run_weekly_predictions", match_data_list |-> match_data_list,
         all_predictions |-> all_predictions, round_number |-> round_number,
         before |-> disk, saved |-> saved, raised |-> raised]
  IN  /\ call = Idle
      /\ IF GenerateRaises(disk, match_data_list)
           THEN /\ disk' = disk
                /\ call' = Ran(FALSE, TRUE)
         ELSE IF all_predictions # <<>> /\ Truthy(round_number)
           THEN LET history == SavedHistory(disk, Handed(all_predictions), round_number, StepYear)
                IN  /\ Len(history.predictions) <= MaxRecords
                    /\ disk' = save_history(history)
                    /\ call' = Ran(TRUE, FALSE)
         ELSE /\ disk' = disk
              /\ call' = Ran(FALSE, FALSE)

WeeklyNext ==
  \/ \E match_data_list \in WeeklyLists :
       \E texts \in [1..Len(match_data_list) -> WeeklyTexts] :
         RunWeeklyPredictions(match_data_list, texts)
  \/ CheckAndUpdateResultsFrom(StepYear, WeeklyFeeds)
  \/ Return

WeeklySpec == Init /\ [][WeeklyNext]_vars

---------------------------------------------------------------------------
(* The runs on what the feed justifies: one prediction recorded at a time,  *)
(* under the round as an integer or as a string, in one of two years; the   *)
(* feed holds the fixture complete, not complete yet, in the next round,    *)
(* and the return fixture                                                   *)

FeedPreds ==
  { [home_team |-> "Richmond", away_team |-> "Carlton",  prediction |-> TipHome55],
    [home_team |-> "Carlton",  away_team |-> "Richmond", prediction |-> NoTip] }

FeedRounds == {IntRound(5), StrRound(5)}

FeedGames ==
  { Game("Richmond", "Carlton", IntRound(5), 100, 90, 75),
    Game("Richmond", "Carlton", IntRound(5), 0, 90, 75),
    Game("Richmond", "Carlton", IntRound(6), 100, 75, 90),
    Game("Carlton", "Richmond", IntRound(5), 100, 80, 80) }

FeedFeeds ==
  {FetchFailed} \cup {[ok |-> TRUE, games |-> gs] : gs \in SeqsUpTo(FeedGames, MaxGames)}

FeedNext ==
  \/ \E pred \in FeedPreds, round_number \in FeedRounds, year \in Years :
       SavePredictions(<<pred>>, round_number, year)
  \/ \E year \in Years : CheckAndUpdateResultsFrom(year, FeedFeeds)
  \/ Return

FeedSpec == Init /\ [][FeedNext]_vars

---------------------------------------------------------------------------
(* calculate_accuracy_summary applied to lists of records                  *)
(*                                                                         *)
(* The records are of one fixture, stored under round 5, round "5" or      *)
(* round 6, pending, right or wrong.  The variable call holds the list     *)
(* and, once the function has run, the summary; the file plays no part.    *)

SummaryRecords ==
  {[NewRecord([home_team |-> "Richmond", away_team |-> "Carlton", prediction |-> TipHome55],
              round, StepYear) EXCEPT !.correct = correct] :
     round \in {IntRound(5), StrRound(5), IntRound(6)},
     correct \in {None, Some(TRUE), Some(FALSE)}}

SummaryInit ==
  /\ disk = NoFile
  /\ call \in {[op |-> "records", predictions |-> predictions, summary |-> <<>>] :
                  predictions \in SeqsUpTo(SummaryRecords, MaxRecords)}

Summarise ==
  /\ call.op = "records"
  /\ call' = [call EXCEPT !.op = "summarised",
                          !.summary = calculate_accuracy_summary(call.predictions)]
  /\ UNCHANGED disk

SummaryNext == Summarise

SummarySpec == SummaryInit /\ [][SummaryNext]_vars

---------------------------------------------------------------------------
(* The runs on what a batch appends: batches in which a fixture may come    *)
(* twice, recorded under one of two rounds                                  *)

BatchGames ==
  { Game("Richmond", "Carlton", IntRound(5), 100, 90, 75),
    Game("Carlton", "Richmond", IntRound(0), 100, 75, 90) }

BatchFeeds ==
  {FetchFailed} \cup {[ok |-> TRUE, games |-> gs] : gs \in SeqsUpTo(BatchGames, MaxGames)}

BatchNext ==
  \/ \E predictions_list \in Batches, round_number \in Rounds :
       SavePredictions(predictions_list, round_number, StepYear)
  \/ CheckAndUpdateResultsFrom(StepYear, BatchFeeds)
  \/ Return

BatchSpec == Init /\ [][BatchNext]_vars

---------------------------------------------------------------------------
(* The two winner extractors applied to texts                               *)
(*                                                                         *)
(* A text is put together from pieces; the fixtures are the pairs of teams *)
(* of which one name ends with the other.  The variable call holds the     *)
(* text and the fixture and, once the extractors have run, what each has   *)
(* returned; the file plays no part.                                       *)

MaxPieces == 4

Pieces ==
  {"PREDICTED WINNER: ", "North Melbourne", "Melbourne", "Port Adelaide", "Adelaide",
   " is backed at 61% to beat "}

SuffixFixtures ==
  {<<"Melbourne", "North Melbourne">>, <<"North Melbourne", "Melbourne">>,
   <<"Adelaide", "Port Adelaide">>, <<"Port Adelaide", "Adelaide">>}

\* the characters of the text made of the pieces
RECURSIVE Flatten(_)
Flatten(pieces) ==
  IF pieces = <<>> THEN <<>> ELSE Chars(Head(pieces)) \o Flatten(Tail(pieces))

ExtractInit ==
  /\ disk = NoFile
  /\ call \in {[op |-> "text", pieces |-> pieces, home_team |-> f[1], away_team |-> f[2],
                 recorder |-> "", dashboard |-> None] :
                  pieces \in SeqsUpTo(Pieces, MaxPieces), f \in SuffixFixtures}

\* extract_predicted_winner (src/tracker.py) and extract_winner (src/app.py) on the text
ExtractWinner ==
  /\ call.op = "text"
  /\ call' = [call EXCEPT
                !.op = "extracted",
                !.recorder = extract_predicted_winner(Flatten(call.pieces),
                                                      call.home_team, call.away_team),
                !.dashboard = extract_winner(Flatten(call.pieces),
                                             call.home_team, call.away_team)]
  /\ UNCHANGED disk

ExtractNext == ExtractWinner

ExtractSpec == ExtractInit /\ [][ExtractNext]_vars

\* Texts that also speak of a predicted winner in a sentence, without the colon
\* of the OUTPUT FORMAT line (src/predict.py line 207), for a fixture of two
\* unrelated names in either order.
DashboardPieces ==
  {"PREDICTED WINNER: ", "The predicted winner last week was ", "Richmond", "Carlton", ". "}

DashboardInit ==
  /\ disk = NoFile
  /\ call \in {[op |-> "text", pieces |-> pieces, home_team |-> f[1], away_team |-> f[2],
                 recorder |-> "", dashboard |-> None] :
                  pieces \in SeqsUpTo(DashboardPieces, MaxPieces),
                  f \in {<<"Richmond", "Carlton">>, <<"Carlton", "Richmond">>}}

DashboardSpec == DashboardInit /\ [][ExtractNext]_vars

---------------------------------------------------------------------------
(* Vocabulary of the properties *)

\* the records in the store, and the records that were in it when the last call began
Store == load_history(disk).predictions

Before == load_history(call.before).predictions

Summary == load_history(disk).accuracy_summary

SameKey(p, q) ==
  /\ p.year = q.year
  /\ p.round = q.round
  /\ p.home_team = q.home_team
  /\ p.away_team = q.away_team

\* a prediction handed to save_predictions has the key of the stored record p
SubmitsKeyOf(pred, p) ==
  /\ pred.home_team = p.home_team
  /\ pred.away_team = p.away_team
  /\ call.round_number = p.round
  /\ call.year = p.year

Resolved(p) == p.correct # None

ResolvedIn(records) == {i \in 1..Len(records) : Resolved(records[i])}

\* the game is complete and is the fixture of the record p, in p's round
GameFits(g, p) ==
  /\ g.complete = 100
  /\ g.hteam = p.home_team
  /\ g.ateam = p.away_team
  /\ StrOf(g.round) = StrOf(p.round)

\* game k of the fetched feed is the first that fits p
FirstFit(k, p) ==
  /\ GameFits(call.feed.games[k], p)
  /\ \A j \in 1..(k - 1) : ~GameFits(call.feed.games[j], p)

\* the records the last call has resolved
NewlyResolved ==
  {i \in 1..Len(Before) : ~Resolved(Before[i]) /\ i <= Len(Store) /\ Resolved(Store[i])}

Saved == call.op = "save_predictions"

Checked == call.op = "check_and_update_results"

---------------------------------------------------------------------------
(* C1 *)

\* C1: save_predictions called twice in a row with the same batch, round and
\* year leaves as many records in the store as the first call did.
C1_IdempotentRecording ==
  (Saved /\ call.again) => Len(Store) = Len(Before)

\* a repeated call of a batch of two predictions, the first call having stored records
C1_Witness ==
  /\ Saved
  /\ call.again
  /\ Len(call.predictions_list) = 2
  /\ Len(Store) = 2

(* C2 *)

\* C2: no two records of the store have the same year, round, home team and away team.
C2_KeyUniqueness ==
  \A i, j \in 1..Len(Store) : i < j => ~SameKey(Store[i], Store[j])

\* a batch that held one fixture twice, with two texts, has stored one record for it
C2_Witness ==
  /\ Saved
  /\ Len(call.predictions_list) = 2
  /\ call.predictions_list[1].home_team = call.predictions_list[2].home_team
  /\ call.predictions_list[1].away_team = call.predictions_list[2].away_team
  /\ call.predictions_list[1].prediction # call.predictions_list[2].prediction
  /\ Len(Store) = Len(Before) + 1
  /\ Len(Store) = 2

(* C3 *)

\* C3: a record whose key is submitted again to save_predictions is left as it
\* was, in every field, pending or resolved, whatever the new text.
C3_NoOverwriteOnDuplicate ==
  Saved =>
    \A i \in 1..Len(Before) :
      (\E k \in 1..Len(call.predictions_list) : SubmitsKeyOf(call.predictions_list[k], Before[i]))
        => (i <= Len(Store) /\ Store[i] = Before[i])

\* the key of a resolved record was submitted again with another text
C3_Witness ==
  /\ Saved
  /\ \E i \in 1..Len(Before), k \in 1..Len(call.predictions_list) :
       /\ SubmitsKeyOf(call.predictions_list[k], Before[i])
       /\ Resolved(Before[i])
       /\ call.predictions_list[k].prediction # Before[i].prediction_text

(* C4 *)

\* C4: for every record, correct is None exactly when actual_winner is None, and
\* a correct that is set equals (predicted_winner == actual_winner).
C4_TriStateCorrectness ==
  \A i \in 1..Len(Store) :
    LET p == Store[i]
    IN  /\ (p.correct = None) <=> (p.actual_winner = None)
        /\ (p.correct # None /\ p.actual_winner # None)
             => p.correct[1] = (p.predicted_winner = p.actual_winner[1])

\* the store holds a record resolved as correct and a record resolved as wrong
C4_Witness ==
  \E i, j \in 1..Len(Store) :
    /\ Store[i].correct = Some(TRUE)
    /\ Store[j].correct = Some(FALSE)

(* C5 *)

\* C5: a record that was resolved when a call began has the same actual_winner,
\* actual_margin and correct when the call has run, whatever the call and the feed.
C5_OneWayResolution ==
  (Saved \/ Checked) =>
    \A i \in 1..Len(Before) :
      Resolved(Before[i]) =>
        /\ i <= Len(Store)
        /\ Store[i].correct = Before[i].correct
        /\ Store[i].actual_winner = Before[i].actual_winner
        /\ Store[i].actual_margin = Before[i].actual_margin

\* the feed of a later check reports a home win for a game recorded as a draw
C5_Witness ==
  /\ Checked
  /\ call.feed.ok
  /\ \E i \in 1..Len(Before), k \in 1..Len(call.feed.games) :
       /\ Before[i].actual_winner = Some("Draw")
       /\ Before[i].year = call.year
       /\ GameFits(call.feed.games[k], Before[i])
       /\ call.feed.games[k].hscore > call.feed.games[k].ascore

(* C6 *)

\* C6: a record resolved by check_and_update_results has as actual_winner its
\* home team when the matched game's home score is higher, its away team when
\* the away score is higher, and "Draw" when they are equal; on a draw a record
\* that tipped one of the teams is marked wrong.
C6_OutcomeDerivation ==
  (Checked /\ call.feed.ok) =>
    \A i \in NewlyResolved :
      \E k \in 1..Len(call.feed.games) :
        LET g == call.feed.games[k]
            p == Store[i]
        IN  /\ FirstFit(k, Before[i])
            /\ p.actual_winner =
                 Some(IF g.hscore > g.ascore THEN p.home_team
                      ELSE IF g.ascore > g.hscore THEN p.away_team
                      ELSE "Draw")
            /\ (g.hscore = g.ascore /\ p.predicted_winner \in {p.home_team, p.away_team})
                 => p.correct = Some(FALSE)

\* a record that tipped Richmond has been resolved on a drawn game
C6_Witness ==
  /\ Checked
  /\ \E i \in NewlyResolved :
       /\ Store[i].predicted_winner = "Richmond"
       /\ Store[i].actual_winner = Some("Draw")
       /\ Store[i].correct = Some(FALSE)

(* C7 *)

\* C7: the actual_margin of every resolved record is a non-negative integer, 0
\* exactly when actual_winner is "Draw", and a record resolved by
\* check_and_update_results gets abs(home score - away score) of its matched game.
C7_Margin ==
  /\ \A i \in ResolvedIn(Store) :
       /\ Store[i].actual_margin # None
       /\ Store[i].actual_margin[1] \in Nat
       /\ (Store[i].actual_margin[1] = 0) <=> (Store[i].actual_winner = Some("Draw"))
  /\ (Checked /\ call.feed.ok) =>
       \A i \in NewlyResolved :
         \E k \in 1..Len(call.feed.games) :
           LET g == call.feed.games[k]
           IN  /\ FirstFit(k, Before[i])
               /\ Store[i].actual_margin =
                    Some(IF g.hscore >= g.ascore THEN g.hscore - g.ascore
                         ELSE g.ascore - g.hscore)

\* a record that tipped its home team has been resolved on an away win by 15
C7_Witness ==
  /\ Checked
  /\ \E i \in NewlyResolved :
       /\ Store[i].predicted_winner = Store[i].home_team
       /\ Store[i].actual_winner = Some(Store[i].away_team)
       /\ Store[i].actual_margin = Some(15)

(* C8 *)

\* C8: a pending record for which the feed holds no completed game of its home
\* team, away team and round is left as it was by check_and_update_results, and
\* the summary of that call counts the resolved records only, so not this one.
C8_UnmatchedStayPending ==
  Checked =>
    \A i \in 1..Len(Before) :
      (/\ ~Resolved(Before[i])
       /\ ~\E k \in 1..Len(call.feed.games) : GameFits(call.feed.games[k], Before[i]))
        => /\ i <= Len(Store)
           /\ Store[i] = Before[i]
           /\ call.returned # None =>
                (IF call.returned[1] = <<>> THEN 0 ELSE call.returned[1].overall_total)
                  = Cardinality(ResolvedIn(Store) \ {i})

\* the feed held the record's fixture in another round; the record is still
\* pending and another record of the year was resolved
C8_Witness ==
  /\ Checked
  /\ call.feed.ok
  /\ NewlyResolved # {}
  /\ \E i \in 1..Len(Before), k \in 1..Len(call.feed.games) :
       /\ ~Resolved(Before[i])
       /\ Before[i].year = call.year
       /\ call.feed.games[k].complete = 100
       /\ call.feed.games[k].hteam = Before[i].home_team
       /\ call.feed.games[k].ateam = Before[i].away_team
       /\ StrOf(call.feed.games[k].round) # StrOf(Before[i].round)
       /\ Store[i] = Before[i]

(* C9 *)

\* C9: the stored accuracy_summary is {} when no record of the store is
\* resolved; otherwise its overall_total is the number of resolved records of
\* all years, its overall_correct the number of them with correct = true, and
\* overall_correct <= overall_total.
C9_SummaryMatchesRecords ==
  LET n == Cardinality(ResolvedIn(Store))
      c == Cardinality({i \in 1..Len(Store) : Store[i].correct = Some(TRUE)})
  IN  IF n = 0 THEN Summary = <<>>
      ELSE /\ Summary # <<>>
           /\ Summary.overall_total = n
           /\ Summary.overall_correct = c
           /\ Summary.overall_correct <= Summary.overall_total

\* resolved records of two years are counted in one summary
C9_Witness ==
  /\ Summary # <<>>
  /\ Summary.overall_total = 2
  /\ \E i, j \in ResolvedIn(Store) : Store[i].year # Store[j].year

(* C10 *)

\* C10: in the summary check_and_update_results computes, favourite_picks
\* counts the resolved records with a probability >= 55, upset_picks those with
\* a probability < 55, a resolved record without a probability is in neither,
\* the two totals add up to the resolved records that have a probability, and
\* in each bucket correct <= total.
C10_BucketDisjointness ==
  (Checked /\ call.returned # None /\ call.returned # Some(<<>>)) =>
    LET s          == call.returned[1]
        withProb   == {i \in ResolvedIn(Store) : Store[i].predicted_probability # None}
        favourites == {i \in withProb : Store[i].predicted_probability[1] >= 550}
        upsets     == {i \in withProb : Store[i].predicted_probability[1] < 550}
    IN  /\ s.favourite_picks.total = Cardinality(favourites)
        /\ s.upset_picks.total = Cardinality(upsets)
        /\ s.favourite_picks.total + s.upset_picks.total = Cardinality(withProb)
        /\ s.favourite_picks.correct <= s.favourite_picks.total
        /\ s.upset_picks.correct <= s.upset_picks.total

\* the summary covers a resolved pick at exactly 55 and a resolved record without probability
C10_Witness ==
  /\ Checked
  /\ call.returned # None
  /\ call.returned # Some(<<>>)
  /\ call.returned[1].favourite_picks.total = 1
  /\ \E i, j \in ResolvedIn(Store) :
       /\ Store[i].predicted_probability = Some(550)
       /\ Store[j].predicted_probability = None

(* C11 *)

\* C11: when the request of check_and_update_results fails, the call returns
\* None and the file is what it was before the call.
C11_FeedFailureLeavesStateIntact ==
  (Checked /\ call.feed = FetchFailed) =>
    /\ call.returned = None
    /\ disk = call.before

\* the request failed while the store held a pending record of the year and a resolved record
C11_Witness ==
  /\ Checked
  /\ call.feed = FetchFailed
  /\ \E i, j \in 1..Len(Store) :
       /\ IsPending(Store[i], call.year)
       /\ Resolved(Store[j])

(* C17 *)

\* C17: check_and_update_results(year) returns None and leaves the file as it
\* was when no record of the year is pending; when a record is pending and the
\* fetch succeeds it returns the accuracy_summary that the store holds after the call.
C17_ReconcilerResult ==
  Checked =>
    /\ ~HasPending(load_history(call.before), call.year)
         => (call.returned = None /\ disk = call.before)
    /\ (HasPending(load_history(call.before), call.year) /\ call.feed.ok)
         => call.returned = Some(Summary)

\* a successful check has resolved a record and returned a summary of two resolved records
C17_Witness ==
  /\ Checked
  /\ call.feed.ok
  /\ NewlyResolved # {}
  /\ call.returned # None
  /\ call.returned[1] # <<>>
  /\ call.returned[1].overall_total = 2
  /\ call.returned[1] = Summary

---------------------------------------------------------------------------
(* Vocabulary of the step-level properties *)

\* the records load_history finds in the file as it is
TextStore == LoadText(disk).predictions

\* the process has loaded and the file has not been written since
Holding(p) ==
  /\ Proc(p).pc \in {"loop", "save", "fetch", "update", "done", "raised"}
  /\ Proc(p).saves = 0

\* the process has returned from an entry point that saved
SavedAndDone(p) == Proc(p).pc = "done" /\ Proc(p).saves = 1

(* C12 *)

\* C12: load_history hands to every entry point the stored document when the
\* file exists and parses, and {predictions: [], accuracy_summary: {}} when
\* the file is missing or does not parse, never what a raising json.load
\* leaves; and after save_history(doc), load_history returns doc.
C12_LoadNeverRaises ==
  \A p \in {1} :
    /\ Holding(p) =>
         Proc(p).loaded =
           (IF disk.exists /\ json_load(disk.text) # None THEN json_load(disk.text)[1]
            ELSE EmptyHistory)
    /\ SavedAndDone(p) => LoadText(disk) = Proc(p).history

\* an entry point has loaded a file that exists and does not parse, after
\* records had been saved and loaded back
C12_Witness ==
  /\ Holding(1)
  /\ disk.exists
  /\ json_load(disk.text) = None
  /\ Proc(1).loaded = EmptyHistory
  /\ call.ever # {}

(* C13 *)

\* C13: when the process dies inside save_history, load_history afterwards
\* returns the document that was readable before, or the new document.
C13_CrashSafeSave ==
  \A p \in {1} :
    Proc(p).pc = "crashed" =>
      LoadText(disk) \in {Proc(p).previous, Proc(p).history}

(* C14 *)

\* C14: after every completed save_predictions or check_and_update_results,
\* every record a completed save has once written is still in the store.
C14_RecordsNeverDeleted ==
  \A p \in {1} :
    (Proc(p).pc = "done" /\ Proc(p).op \in {"save_predictions", "check_and_update_results"})
      => call.ever \subseteq KeysOf(TextStore)

(* C15 *)

\* C15: when an invocation has saved last, a record that another invocation
\* wrote to the file between this invocation's load and its save is in the
\* store only if this invocation produced the same record itself: the save
\* writes what the invocation computed from what it had loaded, whatever the
\* file held by then.
C15_LostUpdate ==
  \A p \in Procs :
    (SavedAndDone(p) /\ call.last = p) =>
      \A r \in Proc(p).missed \ RecordsOf(Proc(p).history.predictions) :
        r \notin RecordsOf(TextStore)

\* save_predictions and check_and_update_results had both loaded before either
\* saved; the recorder saved last, and the resolution the reconciler had
\* written is gone: the record is pending again
C15_Witness ==
  \E p \in Procs :
    /\ SavedAndDone(p)
    /\ call.last = p
    /\ Proc(p).op = "save_predictions"
    /\ Len(TextStore) = 2
    /\ \E r \in Proc(p).missed :
         /\ r.correct # None
         /\ r \notin RecordsOf(TextStore)
         /\ \E i \in 1..Len(TextStore) :
              KeyOf(TextStore[i]) = KeyOf(r) /\ TextStore[i].correct = None

(* C16 *)

\* C16: every invocation loads once; save_predictions saves once, when the loop
\* over the batch is over; check_and_update_results saves once when it returns
\* a summary and not at all when it returns None, and not before its loop is
\* over; format_history_for_ai and get_accuracy_display_data do not save.
C16_OneLoadOneSave ==
  \A p \in {1} :
    LET proc == Proc(p)
    IN  /\ proc.loads <= 1
        /\ proc.saves <= 1
        /\ proc.pc \notin {"idle"} => proc.loads = 1
        /\ proc.pc \in {"loop", "fetch", "update", "save", "raised", "crashed"} => proc.saves = 0
        /\ proc.pc = "done" =>
             proc.saves =
               (IF proc.op = "save_predictions" THEN 1
                ELSE IF proc.op = "check_and_update_results" /\ proc.returned # None THEN 1
                ELSE 0)

\* save_predictions has returned after appending the two records of its batch with one save
C16_Witness ==
  /\ SavedAndDone(1)
  /\ Proc(1).op = "save_predictions"
  /\ Len(Proc(1).predictions_list) = 2
  /\ Len(Proc(1).history.predictions) = Len(Proc(1).loaded.predictions) + 2
  /\ TextStore = Proc(1).history.predictions

(* C18 *)

\* the longer of the two team names of the text in hand
LongerName ==
  IF Len(Chars(call.home_team)) > Len(Chars(call.away_team)) THEN call.home_team
  ELSE call.away_team

\* the first "PREDICTED WINNER" of the text in hand is followed at once by the longer name
LongerNameFollowsMarker ==
  \E k \in 1..(Len(call.pieces) - 1) :
    /\ call.pieces[k] = "PREDICTED WINNER: "
    /\ \A j \in 1..(k - 1) : call.pieces[j] # "PREDICTED WINNER: "
    /\ call.pieces[k + 1] = LongerName

\* C18: for two teams of which one name ends with the other, in either order,
\* and a text whose first "PREDICTED WINNER" is followed by the longer name,
\* extract_predicted_winner and extract_winner both return the longer-named team.
C18_FullNameDisambiguation ==
  (call.op = "extracted" /\ LongerNameFollowsMarker) =>
    /\ call.recorder = LongerName
    /\ call.dashboard = Some(LongerName)

\* "PREDICTED WINNER: Port Adelaide is backed at 61% to beat Adelaide", Adelaide at home
C18_Witness ==
  /\ call.op = "extracted"
  /\ call.pieces = <<"PREDICTED WINNER: ", "Port Adelaide", " is backed at 61% to beat ", "Adelaide">>
  /\ call.home_team = "Adelaide"
  /\ call.recorder = "Port Adelaide"
  /\ call.dashboard = Some("Port Adelaide")

(* C19 *)

\* C19: the predicted_winner of every record in the store is the record's
\* home_team, its away_team or "Unknown", whatever the text was.
C19_WinnerDomain ==
  \A i \in 1..Len(Store) :
    Store[i].predicted_winner \in {Store[i].home_team, Store[i].away_team, "Unknown"}

\* save_predictions has recorded an empty text next to a text that names a
\* team of another fixture; both records tip "Unknown"
C19_Witness ==
  /\ Saved
  /\ \E i, j \in 1..Len(Store) :
       /\ Store[i].prediction_text = ""
       /\ Store[i].predicted_winner = "Unknown"
       /\ Store[j].prediction_text = TipHome55
       /\ Store[j].home_team = "Melbourne"
       /\ Store[j].predicted_winner = "Unknown"

(* C20 *)

\* C20: a resolved record whose predicted_winner is "Unknown" has correct =
\* false, on a home win, an away win and a draw, and every later call leaves
\* it false.
C20_UnknownIsWrong ==
  /\ \A i \in ResolvedIn(Store) :
       Store[i].predicted_winner = "Unknown" => Store[i].correct = Some(FALSE)
  /\ (Saved \/ Checked) =>
       \A i \in ResolvedIn(Before) :
         Before[i].predicted_winner = "Unknown" =>
           (i <= Len(Store) /\ Store[i].correct = Some(FALSE))

\* a record that tips "Unknown" was resolved on a draw; a later check, asked
\* for another record of the year, was fed a home win for it and left it wrong
C20_Witness ==
  /\ Checked
  /\ call.feed.ok
  /\ \E i \in ResolvedIn(Before), k \in 1..Len(call.feed.games) :
       /\ Before[i].predicted_winner = "Unknown"
       /\ Before[i].actual_winner = Some("Draw")
       /\ GameFits(call.feed.games[k], Before[i])
       /\ call.feed.games[k].hscore > call.feed.games[k].ascore
       /\ Store[i].correct = Some(FALSE)

---------------------------------------------------------------------------
(* The weekly run *)

\* run_weekly_predictions has run to its end
Weekly == call.op = "run_weekly_predictions" /\ ~call.raised

\* the store holds a record of the year 2026 for the match under the round
StoredUnder(match, round) ==
  \E i \in 1..Len(Store) :
    /\ Store[i].year = StepYear
    /\ Store[i].round = round
    /\ Store[i].home_team = match.home_team
    /\ Store[i].away_team = match.away_team

\* C21 (Round 0 is a valid round): once run_weekly_predictions has returned
\* for a list of matches of one round, the store holds a record under that
\* round for each match, for round 0 as for any other round.
C21_RoundZeroIsPersisted ==
  \A r \in WeeklyRounds :
    (/\ Weekly
     /\ call.match_data_list # <<>>
     /\ \A k \in 1..Len(call.match_data_list) : call.match_data_list[k].round = r)
    => \A k \in 1..Len(call.match_data_list) : StoredUnder(call.match_data_list[k], r)

\* C26 (Each record carries its own fixture's round): once
\* run_weekly_predictions has saved its predictions, the store holds for each
\* match of the list a record under the round of that match.
C26_RecordCarriesOwnRound ==
  (Weekly /\ call.saved) =>
    \A k \in 1..Len(call.match_data_list) :
      StoredUnder(call.match_data_list[k], call.match_data_list[k].round)

---------------------------------------------------------------------------
(* The formatter *)

\* C22 (Formatter never raises): an invocation of format_history_for_ai on
\* a store written by save_predictions and check_and_update_results returns
\* a text; it never ends by raising.
C22_FormatterNeverRaises ==
  \A p \in {1} :
    Proc(p).op = "format_history_for_ai" =>
      /\ Proc(p).pc # "raised"
      /\ Proc(p).returned # None

---------------------------------------------------------------------------
(* Malformed games *)

\* C23 (Malformed game entries do not crash reconciliation): an invocation of
\* check_and_update_results never ends by raising, whatever the scores of the
\* completed games of the feed, and the summary in the file is the summary
\* of the records in the file.
C23_MalformedGamesDoNotCrash ==
  \A p \in {1} :
    Proc(p).op = "check_and_update_results" =>
      /\ Proc(p).pc # "raised"
      /\ LoadText(disk).accuracy_summary = calculate_accuracy_summary(TextStore)

---------------------------------------------------------------------------
(* What the feed justifies *)

\* C24 (Resolution is justified by the feed): a record that
\* check_and_update_results(year) has resolved was pending, is of that year,
\* and the fetched games hold a game with complete = 100, its home team, its
\* away team and its round as a string; every other record is as it was, the
\* records of the other years among them.
C24_ResolutionJustifiedByFeed ==
  Checked =>
    /\ Len(Store) = Len(Before)
    /\ \A i \in 1..Len(Before) :
         \/ Store[i] = Before[i]
         \/ /\ ~Resolved(Before[i])
            /\ Resolved(Store[i])
            /\ Before[i].year = call.year
            /\ call.feed.ok
            /\ \E k \in 1..Len(call.feed.games) : GameFits(call.feed.games[k], Before[i])

\* the round-5 game of the feed has resolved the record stored under round "5"
\* of the year asked for; the store also holds a pending record of the other
\* year with the same fixture, which is as it was
C24_Witness ==
  /\ Checked
  /\ \E i \in NewlyResolved, j \in 1..Len(Before) :
       /\ Before[i].round = StrRound(5)
       /\ call.feed.games[1].round = IntRound(5)
       /\ Before[j].year # call.year
       /\ Before[j].home_team = Before[i].home_team
       /\ ~Resolved(Store[j])

---------------------------------------------------------------------------
(* What a batch appends *)

\* the places of the batch whose key is not stored yet and has not come
\* earlier in the batch
NewInBatch ==
  {k \in 1..Len(call.predictions_list) :
     /\ \A i \in 1..Len(Before) : ~SubmitsKeyOf(call.predictions_list[k], Before[i])
     /\ \A j \in 1..(k - 1) :
          ~(/\ call.predictions_list[j].home_team = call.predictions_list[k].home_team
            /\ call.predictions_list[j].away_team = call.predictions_list[k].away_team)}

\* C25 (Recorder postcondition): after save_predictions the store is the
\* list as it was, in its order, followed by one record for each place of
\* NewInBatch, in the order of the batch, with the round and the year of the
\* call, the text of that prediction, and actual_winner, actual_margin and
\* correct None; the summary is as it was; what is returned is what is stored.
C25_RecorderPostcondition ==
  Saved =>
    /\ Len(Store) = Len(Before) + Cardinality(NewInBatch)
    /\ \A i \in 1..Len(Before) : Store[i] = Before[i]
    /\ \A k \in NewInBatch :
         LET record == Store[Len(Before) + Cardinality({j \in NewInBatch : j <= k})]
             pred   == call.predictions_list[k]
         IN  /\ record.home_team = pred.home_team
             /\ record.away_team = pred.away_team
             /\ record.round = call.round_number
             /\ record.year = call.year
             /\ record.prediction_text = pred.prediction
             /\ record.actual_winner = None
             /\ record.actual_margin = None
             /\ record.correct = None
    /\ Summary = load_history(call.before).accuracy_summary
    /\ call.returned = Some(load_history(disk))

\* a batch of two predictions of one fixture and a store with a resolved
\* record and its summary: one record was appended, with the text of the
\* first of the two
C25_Witness ==
  /\ Saved
  /\ Len(call.predictions_list) = 2
  /\ call.predictions_list[1].home_team = call.predictions_list[2].home_team
  /\ call.predictions_list[1].prediction # call.predictions_list[2].prediction
  /\ ResolvedIn(Before) # {}
  /\ Summary # <<>>
  /\ Len(Store) = Len(Before) + 1
  /\ Store[Len(Store)].prediction_text = call.predictions_list[1].prediction

---------------------------------------------------------------------------
(* Eventual resolution *)

\* C27 (Eventual resolution): once a check_and_update_results(year) is over,
\* no record of the year is pending in the store while the games the call had
\* fetched held a completed game with its home team, away team and round.
C27_NoneLeftPending ==
  \A p \in {1} :
    (Proc(p).op = "check_and_update_results" /\ Proc(p).pc \in {"done", "raised"}) =>
      \A i \in 1..Len(TextStore) :
        (/\ TextStore[i].year = StepYear
         /\ \E k \in 1..Len(Proc(p).completed_games) :
              GameFits(Proc(p).completed_games[k], TextStore[i]))
          => Resolved(TextStore[i])

---------------------------------------------------------------------------
(* The per-round breakdown *)

\* the sum of by_round[r][field] over the rounds r of keys
RECURSIVE SumOver(_, _, _)
SumOver(by_round, keys, field) ==
  IF keys = {} THEN 0
  ELSE LET r == CHOOSE k \in keys : TRUE
       IN  by_round[r][field] + SumOver(by_round, keys \ {r}, field)

\* C28 (Per-round breakdown partitions the resolved records): in a summary
\* of calculate_accuracy_summary the totals of by_round add up to
\* overall_total and its correct counts to overall_correct; every entry has
\* 0 <= correct <= total and total >= 1; the entries are the string forms of
\* the rounds of the resolved records, and the entry of a string form counts
\* every resolved record whose round has that form, 5 and "5" together.
C28_ByRoundPartition ==
  (call.op = "summarised" /\ call.summary # <<>>) =>
    LET by_round == call.summary.by_round
        resolved == ResolvedIn(call.predictions)
    IN  /\ SumOver(by_round, DOMAIN by_round, "total") = call.summary.overall_total
        /\ SumOver(by_round, DOMAIN by_round, "correct") = call.summary.overall_correct
        /\ \A r \in DOMAIN by_round :
             /\ 0 <= by_round[r].correct
             /\ by_round[r].correct <= by_round[r].total
             /\ by_round[r].total >= 1
        /\ DOMAIN by_round = {StrOf(call.predictions[i].round) : i \in resolved}
        /\ \A i \in resolved :
             by_round[StrOf(call.predictions[i].round)].total =
               Cardinality({j \in resolved :
                              StrOf(call.predictions[j].round) = StrOf(call.predictions[i].round)})

\* a record of round 5 and a record of round "5", one right and one wrong,
\* are counted in one entry
C28_Witness ==
  /\ call.op = "summarised"
  /\ Len(call.predictions) = 2
  /\ call.predictions[1].round = IntRound(5)
  /\ call.predictions[2].round = StrRound(5)
  /\ call.predictions[1].correct = Some(TRUE)
  /\ call.predictions[2].correct = Some(FALSE)
  /\ DOMAIN call.summary.by_round = {5}
  /\ call.summary.by_round[5].total = 2
  /\ call.summary.by_round[5].correct = 1

---------------------------------------------------------------------------
(* The fallback of extract_predicted_winner *)

\* the text in hand holds no "PREDICTED WINNER"
NoMarker == \A k \in 1..Len(call.pieces) : call.pieces[k] # "PREDICTED WINNER: "

\* how often the text in hand mentions the team: the pieces that are its name
Mentions(team) == Cardinality({k \in 1..Len(call.pieces) : call.pieces[k] = team})

\* C29 (Fallback counts full names): for a text without "PREDICTED WINNER",
\* extract_predicted_winner returns the team that is mentioned more often,
\* "Unknown" when both are mentioned equally often or not at all; the shorter
\* name inside the longer one is no mention of the shorter-named team.
C29_FallbackCountsFullNames ==
  (call.op = "extracted" /\ NoMarker) =>
    call.recorder =
      (IF Mentions(call.home_team) > Mentions(call.away_team) THEN call.home_team
       ELSE IF Mentions(call.away_team) > Mentions(call.home_team) THEN call.away_team
       ELSE "Unknown")

---------------------------------------------------------------------------
(* The dashboard against the recorder *)

\* C30 (Dashboard and recorder agree on the tip): whenever extract_winner of
\* the dashboard returns a team for a text and a fixture, extract_predicted_winner
\* returns the same team for them.
C30_DashboardAgreesWithRecorder ==
  (call.op = "extracted" /\ call.dashboard # None) =>
    call.dashboard = Some(call.recorder)

=============================================================================
